---- MODULE Spec2Model ----
(***************************************************************************)
(* The investment-data endpoint of src/app.js as a state machine.          *)
(*                                                                         *)
(* One request is: validation of the query, the dispatch of four upstream  *)
(* fetches joined by Promise.all, the settling of each fetch in any order, *)
(* and the continuation of the handler (assembly of the payload, or the    *)
(* catch block).  The upstream provider is a fixed dataset: what each of   *)
(* the four fetches yields (a value or an error) is chosen once, in Init.  *)
(*                                                                         *)
(* JavaScript values:                                                      *)
(*   undefined        [undef |-> TRUE]                                     *)
(*   null             [null |-> TRUE]                                      *)
(*   a number         [n |-> numerator, d |-> denominator], d >= 0, in     *)
(*                    lowest terms; d = 0 are the non-finite numbers       *)
(*                    (0/0 NaN, 1/0 Infinity, -1/0 -Infinity)              *)
(*   a string         [s |-> sequence of fragments]; where the code looks  *)
(*                    inside a string (parseFloat, toUpperCase, padStart)  *)
(*                    the fragments are single characters                  *)
(*   a Date           [h |-> hours since 1970-01-01T00:00Z]                *)
(* Arithmetic is exact rational arithmetic extended with the non-finite    *)
(* numbers; binary floating-point rounding error is not modelled.          *)
(***************************************************************************)
EXTENDS Integers, Sequences, FiniteSets, TLC

VARIABLES
  upstream,   \* what the provider answers to each of the four fetches
  client,     \* per request: the query string the client sends
  req,        \* per request: handler position, fetch states, fulfilled values,
              \*   and the error its catch block received
  res,        \* per request: the response sent, or NoResponse
  log,        \* per request: the console.error lines written
  now         \* the wall clock read by new Date()

vars == <<upstream, client, req, res, log, now>>

\* ------------------------------------------------------------------------
\* Bounds of the model
\* ------------------------------------------------------------------------
MaxLen == 2      \* longest historical series the provider returns
MaxClock == 1    \* the clock ticks at most this many times

\* ------------------------------------------------------------------------
\* JavaScript values
\* ------------------------------------------------------------------------
Undefined == [undef |-> TRUE]
Null == [null |-> TRUE]
Str(frags) == [s |-> frags]
DateV(hours) == [h |-> hours]

IsUndefined(v) == DOMAIN v = {"undef"}
IsNull(v) == DOMAIN v = {"null"}
IsNum(v) == DOMAIN v = {"n", "d"}
IsStr(v) == DOMAIN v = {"s"}

Abs(i) == IF i < 0 THEN -i ELSE i
Sign(i) == IF i < 0 THEN -1 ELSE IF i > 0 THEN 1 ELSE 0

RECURSIVE Gcd(_, _)
Gcd(a, b) == IF b = 0 THEN a ELSE Gcd(b, a % b)

\* The number n/d; d = 0 gives NaN (n = 0) or a signed infinity.
Num(n, d) ==
  IF d = 0 THEN [n |-> Sign(n), d |-> 0]
  ELSE LET g == Gcd(Abs(n), Abs(d))
           sg == IF d < 0 THEN -1 ELSE 1
       IN [n |-> sg * (n \div g), d |-> sg * (d \div g)]

Number(i) == Num(i, 1)
NaN == Num(0, 0)
IsFinite(x) == x.d > 0

\* IEEE-754 *, /, - on the extended rationals (0/0 and Infinity*0 are NaN,
\* x/0 is a signed infinity, Infinity - Infinity is NaN).
Mul(a, b) == Num(a.n * b.n, a.d * b.d)
Div(a, b) ==
  IF (a.d = 0 /\ a.n = 0) \/ (b.d = 0 /\ b.n = 0) THEN NaN
  ELSE IF a.d = 0 /\ b.d = 0 THEN NaN
  ELSE IF b.d = 0 THEN Number(0)
  ELSE IF a.d = 0 THEN Num(a.n * (IF b.n < 0 THEN -1 ELSE 1), 0)
  ELSE IF b.n = 0 THEN Num(a.n, 0)
  ELSE Num(a.n * b.d * Sign(b.n), a.d * Abs(b.n))
Sub(a, b) ==
  IF a.d = 0 /\ b.d = 0 THEN (IF a.n # 0 /\ b.n # 0 /\ a.n # b.n THEN a ELSE NaN)
  ELSE IF a.d = 0 THEN a
  ELSE IF b.d = 0 THEN Num(-b.n, 0)
  ELSE Num(a.n * b.d - b.n * a.d, a.d * b.d)

\* ToBoolean of a value, as used by !x, x && y, x || y and x ? a : b.
Truthy(v) ==
  IF IsUndefined(v) \/ IsNull(v) THEN FALSE
  ELSE IF IsNum(v) THEN v.n # 0
  ELSE IF IsStr(v) THEN v.s # <<>>
  ELSE TRUE

\* a || b
OrElse(a, b) == IF Truthy(a) THEN a ELSE b

RECURSIVE Pow10(_)
Pow10(k) == IF k = 0 THEN 1 ELSE 10 * Pow10(k - 1)

\* parseFloat(x.toFixed(k)): the nearest multiple of 10^-k, a tie going away
\* from zero; NaN and the infinities print as "NaN" / "Infinity" and parse back.
ToFixed(x, k) ==
  IF ~IsFinite(x) THEN x
  ELSE LET a == Abs(x.n)
           q == a \div x.d
           r == a % x.d
           f == (2 * r * Pow10(k) + x.d) \div (2 * x.d)
       IN Num(Sign(x.n) * (q * Pow10(k) + f), Pow10(k))

\* JSON.stringify of a number: NaN and the infinities become null.
Json(v) == IF IsNum(v) /\ ~IsFinite(v) THEN Null ELSE v

\* ------------------------------------------------------------------------
\* Strings: parseFloat, toUpperCase, padStart, decimal printing
\* ------------------------------------------------------------------------
DigitChars == <<"0", "1", "2", "3", "4", "5", "6", "7", "8", "9">>
LowerChars == <<"a", "b", "c", "d", "e", "f", "g", "h", "i", "j", "k", "l", "m",
                "n", "o", "p", "q", "r", "s", "t", "u", "v", "w", "x", "y", "z">>
UpperChars == <<"A", "B", "C", "D", "E", "F", "G", "H", "I", "J", "K", "L", "M",
                "N", "O", "P", "Q", "R", "S", "T", "U", "V", "W", "X", "Y", "Z">>

IsDigit(c) == \E i \in DOMAIN DigitChars : DigitChars[i] = c
DigitValue(c) == (CHOOSE i \in DOMAIN DigitChars : DigitChars[i] = c) - 1

\* The number of digits of cs starting at index i.
RECURSIVE DigitRun(_, _)
DigitRun(cs, i) ==
  IF i <= Len(cs) /\ IsDigit(cs[i]) THEN 1 + DigitRun(cs, i + 1) ELSE 0

\* The value of the k digits of cs that start at index i.
RECURSIVE DigitsValue(_, _, _)
DigitsValue(cs, i, k) ==
  IF k = 0 THEN 0
  ELSE 10 * DigitsValue(cs, i, k - 1) + DigitValue(cs[i + k - 1])

\* parseFloat(v) of a string of characters: an optional sign, digits, an
\* optional "." and digits; anything after that prefix is ignored, and a
\* string with no such prefix parses to NaN.  (Leading blanks, exponents and
\* the word Infinity are not in the strings the model sends.)
ParseFloat(v) ==
  LET cs == v.s
      signed == Len(cs) > 0 /\ cs[1] \in {"-", "+"}
      sg == IF signed /\ cs[1] = "-" THEN -1 ELSE 1
      i0 == IF signed THEN 2 ELSE 1
      ni == DigitRun(cs, i0)
      dot == i0 + ni <= Len(cs) /\ cs[i0 + ni] = "."
      nf == IF dot THEN DigitRun(cs, i0 + ni + 1) ELSE 0
  IN IF ni + nf = 0 THEN NaN
     ELSE Num(sg * (DigitsValue(cs, i0, ni) * Pow10(nf)
                     + DigitsValue(cs, i0 + ni + 1, nf)), Pow10(nf))

ToUpperChar(c) ==
  IF \E i \in DOMAIN LowerChars : LowerChars[i] = c
  THEN UpperChars[CHOOSE i \in DOMAIN LowerChars : LowerChars[i] = c]
  ELSE c

\* v.toUpperCase()
ToUpperCase(v) == Str([i \in DOMAIN v.s |-> ToUpperChar(v.s[i])])

\* String(i) of a non-negative integer, as characters.
RECURSIVE IntToChars(_)
IntToChars(i) ==
  IF i < 10 THEN <<DigitChars[i + 1]>>
  ELSE IntToChars(i \div 10) \o <<DigitChars[(i % 10) + 1]>>

\* cs.padStart(2, '0')
PadStart2(cs) == IF Len(cs) < 2 THEN <<"0">> \o cs ELSE cs

\* ------------------------------------------------------------------------
\* Dates
\* ------------------------------------------------------------------------
\* getUTCFullYear / getUTCMonth + 1 / getUTCDate of a Date: the proleptic
\* Gregorian civil date of the day the instant falls in, in UTC.
CivilFromHours(hours) ==
  LET z == (hours \div 24) + 719468
      era == z \div 146097
      doe == z - era * 146097
      yoe == (doe - doe \div 1460 + doe \div 36524 - doe \div 146096) \div 365
      doy == doe - (365 * yoe + yoe \div 4 - yoe \div 100)
      mp == (5 * doy + 2) \div 153
      day == doy - (153 * mp + 2) \div 5 + 1
      month == IF mp < 10 THEN mp + 3 ELSE mp - 9
      year == yoe + era * 400 + (IF month <= 2 THEN 1 ELSE 0)
  IN [year |-> year, month |-> month, day |-> day]

\* formatDateToYMD(date): 'YYYY-MM-DD' from the UTC components.
formatDateToYMD(date) ==
  LET c == CivilFromHours(date.h)
  IN Str(IntToChars(c.year) \o <<"-">> \o PadStart2(IntToChars(c.month))
         \o <<"-">> \o PadStart2(IntToChars(c.day)))

\* new Date().toISOString() at clock reading t (whole hours).
ToISOString(date) ==
  Str(formatDateToYMD(date).s \o <<"T">>
      \o PadStart2(IntToChars(date.h % 24)) \o <<":00:00.000Z">>)

\* Lexicographic order on strings of characters of equal alphabet: the order
\* of 'YYYY-MM-DD' strings is the order of the days they name.
CharRank(c) == IF IsDigit(c) THEN DigitValue(c) + 1 ELSE 0
RECURSIVE SeqLeq(_, _)
SeqLeq(a, b) ==
  IF a = <<>> THEN TRUE
  ELSE IF b = <<>> THEN FALSE
  ELSE IF CharRank(Head(a)) # CharRank(Head(b))
       THEN CharRank(Head(a)) < CharRank(Head(b))
  ELSE SeqLeq(Tail(a), Tail(b))

\* ------------------------------------------------------------------------
\* Objects and errors
\* ------------------------------------------------------------------------
\* o?.f : undefined when o is undefined or null, or has no property f.
Opt(o, f) ==
  IF IsUndefined(o) \/ IsNull(o) THEN Undefined
  ELSE IF f \in DOMAIN o THEN o[f]
  ELSE Undefined

\* An array is [items |-> sequence]; arr?.[0] is its first element, if any.
Arr(items) == [items |-> items]
First(arr) ==
  IF IsUndefined(arr) \/ IsNull(arr) THEN Undefined
  ELSE IF Len(arr.items) > 0 THEN arr.items[1]
  ELSE Undefined

\* `${v}` inside a template literal.
Interpolate(v) == IF IsUndefined(v) THEN <<"undefined">> ELSE v.s

\* hay.includes(needle) on sequences of words.
Includes(hay, needle) ==
  \E i \in 0..Len(hay) :
    /\ i + Len(needle) <= Len(hay)
    /\ \A j \in 1..Len(needle) : hay[i + j] = needle[j]

\* A thrown error: [code, message].
Err(code, message) == [code |-> code, message |-> message]

\* What a fetch yields.
Fulfil(v) == [ok |-> TRUE, value |-> v]
Reject(e) == [ok |-> FALSE, error |-> e]

Fetches == {"historical", "quote", "profile", "summary"}

\* ------------------------------------------------------------------------
\* The handler's pure parts
\* ------------------------------------------------------------------------
MissingParamsMessage ==
  Str(<<"Missing required query parameters: ticker, startDate, amount">>)
NoHistoricalMessage ==
  Str(<<"No historical data found for the given ticker and date.">>)
InternalErrorMessage == Str(<<"An internal server error occurred.">>)
InvalidTickerMessage(ticker) ==
  Str(<<"Invalid ticker symbol: ">> \o Interpolate(ticker))

Response(status, body) == [status |-> status, body |-> body]
NoResponse == [none |-> TRUE]

\* Faulty variant: the check forgets amount
MissingParams_forgetsAmount(query) ==
  ~Truthy(query.ticker) \/ ~Truthy(query.startDate)

\* if (!ticker || !startDate || !amount)
MissingParams(query) ==
  ~Truthy(query.ticker) \/ ~Truthy(query.startDate) \/ ~Truthy(query.amount)

\* getCompanyDetails: the details object built from a fulfilled quoteSummary.
CompanyDetails(summary) ==
  [fullName |-> Opt(Opt(summary, "price"), "longName"),
   businessSummary |-> Opt(Opt(summary, "assetProfile"), "longBusinessSummary"),
   sector |-> Opt(Opt(summary, "assetProfile"), "sector"),
   industry |-> Opt(Opt(summary, "assetProfile"), "industry"),
   location |-> Str(Interpolate(Opt(Opt(summary, "assetProfile"), "city"))
                    \o <<", ">>
                    \o Interpolate(Opt(Opt(summary, "assetProfile"), "country"))),
   exchange |-> Opt(Opt(summary, "price"), "exchangeName")]

\* Faulty variant: getCompanyDetails without its try/catch
getCompanyDetails_rethrows(outcome) ==
  IF outcome.ok THEN Fulfil(CompanyDetails(outcome.value)) ELSE outcome

\* getCompanyDetails as a promise: it fulfils with the details, or, when the
\* quoteSummary call throws, with null.
getCompanyDetails(outcome) ==
  IF outcome.ok THEN Fulfil(CompanyDetails(outcome.value)) ELSE Fulfil(Null)

\* Faulty variant: only the error code is looked at
IsNotFoundError_codeOnly(error) ==
  IsStr(error.code) /\ error.code = Str(<<"404">>)

\* error.code === '404' || error.message?.includes('Not Found')
IsNotFoundError(error) ==
  \/ IsStr(error.code) /\ error.code = Str(<<"404">>)
  \/ IsStr(error.message) /\ Includes(error.message.s, <<"Not", "Found">>)

\* The catch block of the endpoint.
CatchResponse(query, error) ==
  IF IsNotFoundError(error)
  THEN Response(404, [error |-> InvalidTickerMessage(query.ticker)])
  ELSE Response(500, [error |-> InternalErrorMessage])

lastTradingDayDate(historicalData) ==
  formatDateToYMD(historicalData[Len(historicalData)].date)

latestAnnualStatement(summaryData) ==
  First(Opt(Opt(summaryData, "incomeStatementHistory"), "incomeStatementHistory"))

\* Revenue value, date and label.
Revenue(historicalData, summaryData) ==
  LET las == latestAnnualStatement(summaryData)
      ttm == Opt(Opt(Opt(summaryData, "financialData"), "totalRevenue"), "raw")
  IN IF Truthy(Opt(las, "totalRevenue")) /\ Truthy(Opt(las, "endDate"))
     THEN [value |-> las.totalRevenue,
           asOfDate |-> formatDateToYMD(las.endDate),
           label |-> "Annual"]
     ELSE IF Truthy(ttm)
     THEN [value |-> ttm,
           asOfDate |-> lastTradingDayDate(historicalData),
           label |-> "TTM"]
     ELSE [value |-> Null, asOfDate |-> Null, label |-> "Annual"]

sharesOutstanding(summaryData) ==
  Opt(Opt(summaryData, "defaultKeyStatistics"), "sharesOutstanding")

\* Faulty variant: the quote's raw market cap is preferred to the product
calculatedMarketCap_rawFirst(quote, summaryData) ==
  IF Truthy(Opt(quote, "marketCap"))
  THEN quote.marketCap
  ELSE IF Truthy(Opt(quote, "regularMarketPreviousClose"))
          /\ Truthy(sharesOutstanding(summaryData))
  THEN Mul(quote.regularMarketPreviousClose, sharesOutstanding(summaryData))
  ELSE Undefined

calculatedMarketCap(quote, summaryData) ==
  IF Truthy(Opt(quote, "regularMarketPreviousClose"))
     /\ Truthy(sharesOutstanding(summaryData))
  THEN Mul(quote.regularMarketPreviousClose, sharesOutstanding(summaryData))
  ELSE Opt(quote, "marketCap")

initialInvestment(query) == ParseFloat(query.amount)
startingPrice(historicalData) == historicalData[1].adjClose
sharesPurchased(query, historicalData) ==
  Div(initialInvestment(query), startingPrice(historicalData))
\* Faulty variant: the last historical price stands in for the live quote
currentValue_lastHistorical(query, historicalData, quote) ==
  Mul(sharesPurchased(query, historicalData),
      historicalData[Len(historicalData)].adjClose)

currentValue(query, historicalData, quote) ==
  Mul(sharesPurchased(query, historicalData), quote.regularMarketPrice)

Summary(query, historicalData, quote, clock) ==
  LET inv == initialInvestment(query)
      cv == currentValue(query, historicalData, quote)
  IN [initialInvestment |-> Json(inv),
      currentValue |-> Json(ToFixed(cv, 2)),
      totalReturnDollars |-> Json(ToFixed(Sub(cv, inv), 2)),
      totalReturnPercent |->
        Json(ToFixed(Mul(Div(Sub(cv, inv), inv), Number(100)), 2)),
      ticker |-> ToUpperCase(query.ticker),
      startDate |-> query.startDate,
      sharesOwned |-> Json(ToFixed(sharesPurchased(query, historicalData), 6)),
      requestTimestamp |-> ToISOString(DateV(clock))]

ChartPoint(query, historicalData, day) ==
  [date |-> formatDateToYMD(day.date),
   value |-> Json(ToFixed(Mul(sharesPurchased(query, historicalData),
                              day.adjClose), 2)),
   price |-> Json(ToFixed(day.adjClose, 2))]

\* Faulty variant: the series is mapped newest first
ChartData_reversed(query, historicalData) ==
  [i \in DOMAIN historicalData |->
     ChartPoint(query, historicalData,
                historicalData[Len(historicalData) + 1 - i])]

ChartData(query, historicalData) ==
  [i \in DOMAIN historicalData |->
     ChartPoint(query, historicalData, historicalData[i])]

Profile(query, profileData) ==
  [name |-> OrElse(Opt(profileData, "fullName"), ToUpperCase(query.ticker)),
   sector |-> OrElse(Opt(profileData, "sector"), Str(<<"N/A">>)),
   industry |-> OrElse(Opt(profileData, "industry"), Str(<<"N/A">>)),
   summary |-> OrElse(Opt(profileData, "businessSummary"),
                      Str(<<"No summary available.">>)),
   location |-> OrElse(Opt(profileData, "location"), Str(<<"N/A">>)),
   exchange |-> OrElse(Opt(profileData, "exchange"), Str(<<"N/A">>))]

Metrics(historicalData, quote, summaryData) ==
  [previousClose |->
     [value |-> Json(historicalData[Len(historicalData)].adjClose),
      asOfDate |-> lastTradingDayDate(historicalData)],
   marketCap |->
     [value |-> Json(calculatedMarketCap(quote, summaryData)),
      asOfDate |-> lastTradingDayDate(historicalData)],
   totalRevenue |->
     [value |-> Json(Revenue(historicalData, summaryData).value),
      asOfDate |-> Revenue(historicalData, summaryData).asOfDate,
      label |-> Revenue(historicalData, summaryData).label],
   beta |-> [value |-> Json(Opt(Opt(summaryData, "summaryDetail"), "beta"))]]

\* Faulty variant: no check for the empty series: reading the last point of an
\* empty array throws, and the catch block answers 500
JoinedResponse_noEmptyCheck(query, value, clock) ==
  IF Len(value.historical) = 0
  THEN Response(500, [error |-> InternalErrorMessage])
  ELSE Response(200,
         [summary |-> Summary(query, value.historical, value.quote, clock),
          chartData |-> ChartData(query, value.historical),
          profile |-> Profile(query, value.profile),
          metrics |-> Metrics(value.historical, value.quote, value.summary)])

\* The handler after the join: the 404 for an empty series, else the payload.
JoinedResponse(query, value, clock) ==
  IF Len(value.historical) = 0
  THEN Response(404, [error |-> NoHistoricalMessage])
  ELSE Response(200,
         [summary |-> Summary(query, value.historical, value.quote, clock),
          chartData |-> ChartData(query, value.historical),
          profile |-> Profile(query, value.profile),
          metrics |-> Metrics(value.historical, value.quote, value.summary)])

\* ------------------------------------------------------------------------
\* The provider's datasets and the clients' queries
\* ------------------------------------------------------------------------
Err404 == Err(Str(<<"404">>), Str(<<"Request", "failed">>))
ErrNotFound == Err(Undefined, Str(<<"Quote", "Not", "Found", "for", "symbol">>))
ErrNetwork == Err(Str(<<"ETIMEDOUT">>), Str(<<"network", "timeout">>))
Errors == {Err404, ErrNotFound, ErrNetwork}

\* Instants of 2024-03-09 (00:00 and 14:00 UTC) and 2024-03-10 (00:00 UTC).
HistoricalHours == {474984, 474998, 475008}
AdjCloses == {Number(100), Number(7)}
HistoricalPoints ==
  {[date |-> DateV(h), adjClose |-> c] : h \in HistoricalHours, c \in AdjCloses}

\* The provider returns the series oldest first, at most one point an instant.
HistoricalSeries ==
  {s \in UNION {[1..k -> HistoricalPoints] : k \in 0..MaxLen} :
     \A i \in DOMAIN s : \A j \in DOMAIN s : i < j => s[i].date.h < s[j].date.h}

Quotes ==
  {[regularMarketPrice |-> p, regularMarketPreviousClose |-> c, marketCap |-> m] :
     p \in {Number(120), Number(7)},
     c \in {Undefined, Number(0), Number(50)},
     m \in {Undefined, Number(60000000)}}

PriceModule == [longName |-> Str(<<"Acme Corporation">>), exchangeName |-> Str(<<"NMS">>)]
AssetProfileModule ==
  [longBusinessSummary |-> Str(<<"Acme makes anvils.">>),
   sector |-> Str(<<"Industrials">>),
   industry |-> Str(<<"Tools">>),
   city |-> Str(<<"Tucson">>),
   country |-> Str(<<"United States">>)]
ProfileSummaries ==
  {[price |-> p, assetProfile |-> a] :
     p \in {Undefined, PriceModule}, a \in {Undefined, AssetProfileModule}}

\* 2023-12-31 and 2022-12-31, 00:00 UTC.
Statement(totalRevenue, endDate) ==
  [totalRevenue |-> totalRevenue, endDate |-> endDate]
AnnualHistories ==
  {Undefined,
   [incomeStatementHistory |-> Arr(<<>>)],
   [incomeStatementHistory |-> Arr(<<Statement(Number(1000), DateV(473328))>>)],
   [incomeStatementHistory |-> Arr(<<Statement(Number(0), DateV(473328))>>)],
   [incomeStatementHistory |-> Arr(<<Statement(Number(1000), Undefined)>>)],
   [incomeStatementHistory |-> Arr(<<Statement(Undefined, DateV(473328))>>)],
   [incomeStatementHistory |->
      Arr(<<Statement(Number(1000), DateV(473328)),
            Statement(Number(900), DateV(464568))>>)]}
FinancialDatas ==
  {Undefined,
   [totalRevenue |-> Undefined],
   [totalRevenue |-> [raw |-> Number(0)]],
   [totalRevenue |-> [raw |-> Number(1200)]]}
KeyStatistics ==
  {Undefined, [sharesOutstanding |-> Number(0)],
   [sharesOutstanding |-> Number(1000000)]}
SummaryDatas ==
  {[incomeStatementHistory |-> a, financialData |-> f,
    defaultKeyStatistics |-> k, summaryDetail |-> [beta |-> Num(6, 5)]] :
     a \in AnnualHistories, f \in FinancialDatas, k \in KeyStatistics}

BaseSeries ==
  <<[date |-> DateV(474984), adjClose |-> Number(100)],
    [date |-> DateV(475008), adjClose |-> Number(7)]>>
BaseQuote ==
  [regularMarketPrice |-> Number(120),
   regularMarketPreviousClose |-> Number(50),
   marketCap |-> Number(60000000)]
BaseProfile == [price |-> PriceModule, assetProfile |-> AssetProfileModule]
BaseSummary ==
  [incomeStatementHistory |->
     [incomeStatementHistory |-> Arr(<<Statement(Number(1000), DateV(473328))>>)],
   financialData |-> [totalRevenue |-> [raw |-> Number(1200)]],
   defaultKeyStatistics |-> [sharesOutstanding |-> Number(1000000)],
   summaryDetail |-> [beta |-> Num(6, 5)]]

Dataset(h, q, p, s) == [historical |-> h, quote |-> q, profile |-> p, summary |-> s]

\* Every combination of success and failure of the four fetches (with the
\* empty series), and every value of each fetch beside the base values of
\* the fetches it is not combined with by the handler.
FailureDatasets ==
  {Dataset(h, q, p, s) :
     h \in {Fulfil(BaseSeries), Fulfil(<<>>)} \cup {Reject(e) : e \in Errors},
     q \in {Fulfil(BaseQuote)} \cup {Reject(e) : e \in Errors},
     p \in {Fulfil(BaseProfile), Reject(ErrNetwork)},
     s \in {Fulfil(BaseSummary)} \cup {Reject(e) : e \in Errors}}
RevenueDatasets ==
  {Dataset(Fulfil(h), Fulfil(BaseQuote), Fulfil(BaseProfile), Fulfil(s)) :
     h \in {BaseSeries, <<BaseSeries[1]>>}, s \in SummaryDatas}
MarketCapDatasets ==
  {Dataset(Fulfil(BaseSeries), Fulfil(q), Fulfil(BaseProfile), Fulfil(s)) :
     q \in Quotes,
     s \in {x \in SummaryDatas : x.incomeStatementHistory = Undefined
                                 /\ x.financialData = Undefined}}
SeriesDatasets ==
  {Dataset(Fulfil(h), Fulfil(q), p, Fulfil(BaseSummary)) :
     h \in HistoricalSeries,
     q \in {x \in Quotes : x.regularMarketPreviousClose = Undefined
                           /\ x.marketCap = Undefined},
     p \in {Reject(Err404)}}
ProfileDatasets ==
  {Dataset(Fulfil(BaseSeries), Fulfil(BaseQuote), p, Fulfil(BaseSummary)) :
     p \in {Fulfil(x) : x \in ProfileSummaries} \cup {Reject(e) : e \in Errors}}
Datasets ==
  FailureDatasets \cup RevenueDatasets \cup MarketCapDatasets
    \cup SeriesDatasets \cup ProfileDatasets

Tickers == {Undefined, Str(<<>>), Str(<<"a", "B">>)}
StartDates == {Undefined, Str(<<>>), Str(<<"2024-03-01">>)}
Amounts ==
  {Undefined, Str(<<>>), Str(<<"1", "0", "0", "0">>), Str(<<"0">>),
   Str(<<"x">>), Str(<<"1", "2", ".", "5">>)}
Queries ==
  {[ticker |-> t, startDate |-> d, amount |-> a] :
     t \in Tickers, d \in StartDates, a \in Amounts}

\* ------------------------------------------------------------------------
\* The state machine
\* ------------------------------------------------------------------------
Requests == DOMAIN client

IdleRequest ==
  [pc |-> "idle",
   query |-> Undefined,
   error |-> Undefined,
   fetch |-> [k \in Fetches |-> "none"],
   args |-> [k \in Fetches |-> Undefined],
   value |-> [k \in Fetches |-> Undefined]]

InitWith(datasets, clients) ==
  /\ upstream \in datasets
  /\ client \in clients
  /\ req = [r \in DOMAIN client |-> IdleRequest]
  /\ res = [r \in DOMAIN client |-> NoResponse]
  /\ log = [r \in DOMAIN client |-> {}]
  /\ now = 475040

\* One client, any query, any dataset.
Init == InitWith(Datasets, [{"r1"} -> Queries])

\* The arguments of the four upstream calls.
FetchArgs(query) ==
  [k \in Fetches |->
     IF k = "historical"
     THEN [ticker |-> query.ticker, period1 |-> query.startDate]
     ELSE [ticker |-> query.ticker]]

\* The request arrives: the parameter check and, past it, the four calls.
HandleRequest(r) ==
  /\ req[r].pc = "idle"
  /\ IF MissingParams(client[r])
     THEN /\ res' = [res EXCEPT ![r] =
                       Response(400, [error |-> MissingParamsMessage])]
          /\ req' = [req EXCEPT ![r].pc = "done", ![r].query = client[r]]
     ELSE /\ req' = [req EXCEPT ![r].pc = "awaiting",
                                ![r].query = client[r],
                                ![r].fetch = [k \in Fetches |-> "pending"],
                                ![r].args = FetchArgs(client[r])]
          /\ UNCHANGED res
  /\ UNCHANGED <<upstream, client, log, now>>

\* The promise of fetch k: the provider's answer, through getCompanyDetails
\* for the profile.
FetchPromise(k) ==
  IF k = "profile" THEN getCompanyDetails(upstream[k]) ELSE upstream[k]

ProfileLog(query, error) ==
  [at |-> "profile", ticker |-> query.ticker, message |-> error.message]
MainLog(query, error) ==
  [at |-> "main", ticker |-> query.ticker, message |-> error.message]

\* Fetch k of request r settles.  While the handler awaits the join, the
\* first rejection runs the catch block and the last fulfilment runs the
\* rest of the handler; a fetch that settles after the response is ignored.
Settle(r, k) ==
  /\ req[r].fetch[k] = "pending"
  /\ LET outcome == FetchPromise(k)
         query == req[r].query
         fetch2 == [req[r].fetch EXCEPT
                      ![k] = IF outcome.ok THEN "fulfilled" ELSE "rejected"]
         value2 == IF outcome.ok
                   THEN [req[r].value EXCEPT ![k] = outcome.value]
                   ELSE req[r].value
         awaiting == req[r].pc = "awaiting"
         caught == awaiting /\ ~outcome.ok
         joined == awaiting /\ \A j \in Fetches : fetch2[j] = "fulfilled"
     IN /\ req' = [req EXCEPT ![r].fetch = fetch2,
                              ![r].value = value2,
                              ![r].error = IF caught THEN outcome.error ELSE @,
                              ![r].pc = IF caught \/ joined THEN "done" ELSE @]
        /\ res' = IF caught
                  THEN [res EXCEPT ![r] = CatchResponse(query, outcome.error)]
                  ELSE IF joined
                  THEN [res EXCEPT ![r] = JoinedResponse(query, value2, now)]
                  ELSE res
        /\ log' = [log EXCEPT ![r] =
                     @ \cup (IF k = "profile" /\ ~upstream[k].ok
                             THEN {ProfileLog(query, upstream[k].error)}
                             ELSE {})
                       \cup (IF caught THEN {MainLog(query, outcome.error)}
                             ELSE {})]
  /\ UNCHANGED <<upstream, client, now>>

\* Time passes.
Tick ==
  /\ now < 475040 + MaxClock
  /\ now' = now + 1
  /\ UNCHANGED <<upstream, client, req, res, log>>

Next ==
  \/ \E r \in Requests : HandleRequest(r)
  \/ \E r \in Requests : \E k \in Fetches : Settle(r, k)
  \/ Tick

Spec == Init /\ [][Next]_vars

\* Two clients that send the same query, racing on the same dataset.
PairQueries ==
  {q \in Queries : q.startDate # Str(<<>>)
                   /\ q.amount \in {Undefined, Str(<<"1", "0", "0", "0">>)}}
InitPair ==
  InitWith(FailureDatasets \cup ProfileDatasets,
           {[r \in {"r1", "r2"} |-> q] : q \in PairQueries})
SpecPair == InitPair /\ [][Next]_vars

\* ------------------------------------------------------------------------
\* Vocabulary of the properties
\* ------------------------------------------------------------------------
Answered(r) == res[r] # NoResponse
Present(v) == IsStr(v) /\ Len(v.s) > 0
AllPresent(query) ==
  Present(query.ticker) /\ Present(query.startDate) /\ Present(query.amount)
Succeeds200(r) == Answered(r) /\ res[r].status = 200
ErrorBody(message) == [error |-> Str(<<message>>)]

\* The provider's data, read from the dataset and not through the handler.
UpSeries == upstream.historical.value
UpQuote == upstream.quote.value
UpSummary == upstream.summary.value
MainFetchesSucceed ==
  upstream.historical.ok /\ upstream.quote.ok /\ upstream.summary.ok

\* ------------------------------------------------------------------------
\* C1.  A request in which ticker, startDate or amount is absent or empty is
\* answered 400 with exactly the missing-parameter message, and none of the
\* four upstream fetches is issued for it.
\* ------------------------------------------------------------------------
C1_MissingParamsRejected ==
  \A r \in Requests :
    LET q == client[r]
    IN (~Present(q.ticker) \/ ~Present(q.startDate) \/ ~Present(q.amount))
       => /\ \A k \in Fetches : req[r].fetch[k] = "none" /\ req[r].args[k] = Undefined
          /\ req[r].pc # "awaiting"
          /\ req[r].pc = "done" =>
               res[r] = Response(400,
                 ErrorBody("Missing required query parameters: ticker, startDate, amount"))

C1_Witness ==
  \E r \in Requests :
    /\ Present(client[r].ticker) /\ Present(client[r].startDate)
    /\ client[r].amount = Str(<<>>)
    /\ Answered(r) /\ res[r].status = 400

\* ------------------------------------------------------------------------
\* C2.  As claimed: a request with all three parameters whose historical
\* series is empty is answered 404, never 200 and never 500.
\* ------------------------------------------------------------------------
C2_Original ==
  \A r \in Requests :
    (AllPresent(client[r]) /\ upstream.historical = Fulfil(<<>>) /\ Answered(r))
    => res[r].status = 404

\* C2 as amended: with all three parameters and an empty historical series,
\* the answer is the 404 'No historical data found' error when the quote and
\* the statistics fetches succeed (whatever the profile fetch does), and it
\* is never 200 whatever the other fetches do.
C2_EmptySeries ==
  \A r \in Requests :
    (AllPresent(client[r]) /\ upstream.historical = Fulfil(<<>>) /\ Answered(r))
    => /\ res[r].status # 200
       /\ (upstream.quote.ok /\ upstream.summary.ok)
            => res[r] = Response(404,
                 ErrorBody("No historical data found for the given ticker and date."))

C2_Witness ==
  \E r \in Requests :
    /\ AllPresent(client[r]) /\ upstream.historical = Fulfil(<<>>)
    /\ ~upstream.profile.ok
    /\ Answered(r) /\ res[r].status = 404
    /\ res[r].body = ErrorBody("No historical data found for the given ticker and date.")

\* ------------------------------------------------------------------------
\* C3.  A failed profile fetch never fails the request: when the historical,
\* quote and statistics fetches succeed and the series is not empty, the
\* answer is 200 whether the profile fetch succeeded or failed, and after a
\* failed profile fetch the profile block carries the defaults.
\* ------------------------------------------------------------------------
C3_ProfileFaultTolerant ==
  \A r \in Requests :
    (AllPresent(client[r]) /\ MainFetchesSucceed /\ UpSeries # <<>> /\ Answered(r))
    => /\ res[r].status = 200
       /\ ~upstream.profile.ok =>
            /\ res[r].body.profile.sector = Str(<<"N/A">>)
            /\ res[r].body.profile.industry = Str(<<"N/A">>)
            /\ res[r].body.profile.location = Str(<<"N/A">>)
            /\ res[r].body.profile.exchange = Str(<<"N/A">>)
            /\ res[r].body.profile.summary = Str(<<"No summary available.">>)

C3_Witness ==
  \E r \in Requests :
    /\ ~upstream.profile.ok /\ MainFetchesSucceed
    /\ Succeeds200(r)
    /\ res[r].body.profile.summary = Str(<<"No summary available.">>)

\* ------------------------------------------------------------------------
\* C4.  If the historical, quote or statistics fetch fails, no success
\* payload is returned: the answer is the 404 'Invalid ticker symbol:
\* <ticker>' when the failure that ended the request (the rejection the
\* catch block received) is a provider-reported not-found, and the generic
\* 500 otherwise; and a 200 is sent only after all four fetches have
\* completed.
\* ------------------------------------------------------------------------
MainFailures ==
  {upstream[k].error : k \in {j \in {"historical", "quote", "summary"} : ~upstream[j].ok}}
ReportsNotFound(e) == e \in {Err404, ErrNotFound}
InvalidTicker404(r) ==
  Response(404, [error |-> Str(<<"Invalid ticker symbol: ">> \o client[r].ticker.s)])
Generic500 == Response(500, ErrorBody("An internal server error occurred."))

C4_AllOrNothing ==
  \A r \in Requests :
    /\ (AllPresent(client[r]) /\ MainFailures # {} /\ Answered(r))
       => /\ res[r] \in {InvalidTicker404(r), Generic500}
          /\ req[r].error \in MainFailures
          /\ ReportsNotFound(req[r].error) => res[r] = InvalidTicker404(r)
          /\ ~ReportsNotFound(req[r].error) => res[r] = Generic500
          /\ (\A e \in MainFailures : ReportsNotFound(e)) => res[r] = InvalidTicker404(r)
          /\ (\A e \in MainFailures : ~ReportsNotFound(e)) => res[r] = Generic500
    /\ Succeeds200(r) => \A k \in Fetches : req[r].fetch[k] = "fulfilled"

C4_Witness ==
  \E r \in Requests :
    /\ AllPresent(client[r])
    /\ upstream.historical.ok /\ upstream.summary.ok
    /\ ~upstream.quote.ok /\ upstream.quote.error = ErrNotFound
    /\ Answered(r) /\ res[r] = InvalidTicker404(r)
    /\ req[r].fetch.historical = "pending"

\* ------------------------------------------------------------------------
\* C5.  As claimed: in every 200 response, when the most recent annual
\* statement has a total-revenue figure and an end date, totalRevenue is
\* that figure, that end date as YYYY-MM-DD and 'Annual'; else when a
\* trailing-twelve-month figure exists it is that figure, the last trading
\* day and 'TTM'; else value and date are null and the label is 'Annual'.
\* ------------------------------------------------------------------------
UpAnnual ==
  LET h == UpSummary.incomeStatementHistory
  IN IF h = Undefined \/ h.incomeStatementHistory.items = <<>> THEN Undefined
     ELSE h.incomeStatementHistory.items[1]
UpTTM ==
  LET f == UpSummary.financialData
  IN IF f = Undefined \/ f.totalRevenue = Undefined THEN Undefined
     ELSE f.totalRevenue.raw
LastTradingDay == formatDateToYMD(UpSeries[Len(UpSeries)].date)

C5_RevenuePriority ==
  \A r \in Requests :
    Succeeds200(r) =>
      LET rev == res[r].body.metrics.totalRevenue
      IN IF UpAnnual # Undefined /\ IsNum(UpAnnual.totalRevenue)
            /\ UpAnnual.endDate # Undefined
         THEN rev = [value |-> UpAnnual.totalRevenue,
                     asOfDate |-> formatDateToYMD(UpAnnual.endDate),
                     label |-> "Annual"]
         ELSE IF IsNum(UpTTM)
         THEN rev = [value |-> UpTTM, asOfDate |-> LastTradingDay, label |-> "TTM"]
         ELSE rev = [value |-> Null, asOfDate |-> Null, label |-> "Annual"]

\* ------------------------------------------------------------------------
\* C6.  As claimed: in every 200 response the market cap is the product of
\* the quote's previous close and the shares outstanding when both are
\* available, even when the quote reports a different raw market cap;
\* otherwise it is the quote's raw market cap.
\* ------------------------------------------------------------------------
UpShares ==
  IF UpSummary.defaultKeyStatistics = Undefined THEN Undefined
  ELSE UpSummary.defaultKeyStatistics.sharesOutstanding
NonZero(v) == IsNum(v) /\ v # Number(0)

C6_Original ==
  \A r \in Requests :
    Succeeds200(r) =>
      LET cap == res[r].body.metrics.marketCap.value
      IN IF IsNum(UpQuote.regularMarketPreviousClose) /\ IsNum(UpShares)
         THEN cap = Mul(UpQuote.regularMarketPreviousClose, UpShares)
         ELSE cap = UpQuote.marketCap

\* C6 as amended: the market cap is the product when the previous close and
\* the shares outstanding are both available and not zero, even when the
\* quote reports a different raw market cap; otherwise (one of them absent
\* or zero) it is the quote's raw market cap.
C6_MarketCap ==
  \A r \in Requests :
    Succeeds200(r) =>
      LET cap == res[r].body.metrics.marketCap.value
      IN IF NonZero(UpQuote.regularMarketPreviousClose) /\ NonZero(UpShares)
         THEN cap = Mul(UpQuote.regularMarketPreviousClose, UpShares)
         ELSE cap = UpQuote.marketCap

C6_Witness ==
  \E r \in Requests :
    /\ Succeeds200(r)
    /\ UpQuote.regularMarketPreviousClose = Number(50)
    /\ UpShares = Number(1000000)
    /\ UpQuote.marketCap = Number(60000000)
    /\ res[r].body.metrics.marketCap.value = Number(50000000)

\* ------------------------------------------------------------------------
\* C7.  As claimed: two requests with the same parameters against the same
\* dataset get the same status and the same body, requestTimestamp aside,
\* whatever the order in which their fetches settle.
\* ------------------------------------------------------------------------
WithoutTimestamp(response) ==
  IF response.status = 200
  THEN [response EXCEPT !.body.summary.requestTimestamp = Undefined]
  ELSE response

C7_Idempotent ==
  \A r1 \in Requests : \A r2 \in Requests :
    (client[r1] = client[r2] /\ Answered(r1) /\ Answered(r2))
    => WithoutTimestamp(res[r1]) = WithoutTimestamp(res[r2])

\* What does hold: the two answers agree whenever the failing fetches among
\* historical, quote and statistics are all of one kind (all not-found, or
\* none not-found), which includes every dataset with at most one failure.
C7_IdempotentOneKindOfFailure ==
  \A r1 \in Requests : \A r2 \in Requests :
    (/\ client[r1] = client[r2] /\ Answered(r1) /\ Answered(r2)
     /\ \/ \A e \in MainFailures : ReportsNotFound(e)
        \/ \A e \in MainFailures : ~ReportsNotFound(e))
    => WithoutTimestamp(res[r1]) = WithoutTimestamp(res[r2])

\* ------------------------------------------------------------------------
\* C8.  In every 200 response chartData has one entry per point of the
\* historical series, entry i made from point i, and its dates never
\* decrease.
\* ------------------------------------------------------------------------
C8_ChartData ==
  \A r \in Requests :
    Succeeds200(r) =>
      LET chart == res[r].body.chartData
      IN /\ Len(chart) = Len(UpSeries)
         /\ \A i \in DOMAIN chart :
              /\ chart[i].date = formatDateToYMD(UpSeries[i].date)
              /\ chart[i].price = UpSeries[i].adjClose
         /\ \A i \in DOMAIN chart : \A j \in DOMAIN chart :
              i < j => SeqLeq(chart[i].date.s, chart[j].date.s)

C8_Witness ==
  \E r \in Requests :
    /\ Succeeds200(r)
    /\ Len(res[r].body.chartData) = MaxLen
    /\ res[r].body.chartData[1].price # res[r].body.chartData[MaxLen].price
    /\ res[r].body.chartData[1].date # res[r].body.chartData[MaxLen].date

\* ------------------------------------------------------------------------
\* C9.  In every 200 response: shares = amount / first adjusted close,
\* currentValue = shares x the quote's current price, totalReturnDollars =
\* currentValue - amount, totalReturnPercent = (currentValue - amount) /
\* amount x 100, money to 2 decimals and shares to 6; amount 1000, first
\* price 100 and current price 120 give 10, 1200, 200 and 20.
\* ------------------------------------------------------------------------
AmountOf(r) == ParseFloat(client[r].amount)

C9_Investment ==
  \A r \in Requests :
    Succeeds200(r) =>
      LET s == res[r].body.summary
          amount == AmountOf(r)
          shares == Div(amount, UpSeries[1].adjClose)
          value == Mul(shares, UpQuote.regularMarketPrice)
      IN /\ s.sharesOwned = Json(ToFixed(shares, 6))
         /\ s.currentValue = Json(ToFixed(value, 2))
         /\ s.totalReturnDollars = Json(ToFixed(Sub(value, amount), 2))
         /\ s.totalReturnPercent =
              Json(ToFixed(Mul(Div(Sub(value, amount), amount), Number(100)), 2))
         /\ (/\ client[r].amount = Str(<<"1", "0", "0", "0">>)
             /\ UpSeries[1].adjClose = Number(100)
             /\ UpQuote.regularMarketPrice = Number(120))
            => /\ s.sharesOwned = Number(10)
               /\ s.currentValue = Number(1200)
               /\ s.totalReturnDollars = Number(200)
               /\ s.totalReturnPercent = Number(20)

C9_Witness ==
  \E r \in Requests :
    /\ Succeeds200(r)
    /\ client[r].amount = Str(<<"1", "0", "0", "0">>)
    /\ UpSeries[1].adjClose = Number(100)
    /\ UpSeries[Len(UpSeries)].adjClose = Number(7)
    /\ UpQuote.regularMarketPrice = Number(120)
    /\ res[r].body.summary.currentValue = Number(1200)
    /\ res[r].body.summary.totalReturnPercent = Number(20)

\* ------------------------------------------------------------------------
\* C10.  As claimed: in every 200 response whose market cap is computed as a
\* product, the previous close in the product is the previous close the
\* response reports: marketCap.value = previousClose.value x shares
\* outstanding.
\* ------------------------------------------------------------------------
C10_SamePreviousClose ==
  \A r \in Requests :
    (/\ Succeeds200(r)
     /\ NonZero(UpQuote.regularMarketPreviousClose) /\ NonZero(UpShares))
    => res[r].body.metrics.marketCap.value =
         Mul(res[r].body.metrics.previousClose.value, UpShares)

====
